---- MODULE Spec2Model ----
(***************************************************************************)
(* TrendChecker core logic (src/logic.py): technical indicators, position  *)
(* high tracking, exit strategy, entry scoring and position sizing.        *)
(*                                                                         *)
(* Python floats are modelled as exact rationals [n, d] (d > 0, lowest     *)
(* terms) together with the value NaN; comparisons involving NaN are       *)
(* false, as in Python.  Rounding of binary floating point is not          *)
(* modelled.                                                               *)
(***************************************************************************)
EXTENDS Integers, Sequences, FiniteSets, TLC

VARIABLES
    pc,      \* position of the caller: "ready" before a call, then the name of the step done
    df,      \* the caller's DataFrame object (or None)
    args,    \* scalar arguments of the call
    frame,   \* local variables of the function at its return
    out      \* the returned value

vars == <<pc, df, args, frame, out>>

----------------------------------------------------------------------------
(* Float arithmetic *)

NaN == [nan |-> TRUE]
IsNaN(x) == x = NaN

Abs(x) == IF x < 0 THEN -x ELSE x

RECURSIVE GCD(_, _)
GCD(a, b) == IF b = 0 THEN a ELSE GCD(b, a % b)

\* the number n/d, d # 0, in lowest terms with a positive denominator
Rat(n, d) ==
    LET g == GCD(Abs(n), Abs(d))
        s == IF d < 0 THEN -1 ELSE 1
    IN  [n |-> (s * n) \div g, d |-> (s * d) \div g]

Num(i) == [n |-> i, d |-> 1]

FAdd(a, b) == IF IsNaN(a) \/ IsNaN(b) THEN NaN
              ELSE Rat(a.n * b.d + b.n * a.d, a.d * b.d)
FNeg(a)    == IF IsNaN(a) THEN NaN ELSE [n |-> -a.n, d |-> a.d]
FSub(a, b) == FAdd(a, FNeg(b))
FMul(a, b) == IF IsNaN(a) \/ IsNaN(b) THEN NaN
              ELSE Rat(a.n * b.n, a.d * b.d)
\* the callers guard b # 0 (Python raises ZeroDivisionError there)
FDiv(a, b) == IF IsNaN(a) \/ IsNaN(b) THEN NaN
              ELSE Rat(a.n * b.d, a.d * b.n)

FLt(a, b) == ~IsNaN(a) /\ ~IsNaN(b) /\ a.n * b.d < b.n * a.d
FLe(a, b) == ~IsNaN(a) /\ ~IsNaN(b) /\ a.n * b.d <= b.n * a.d
FGt(a, b) == FLt(b, a)
FGe(a, b) == FLe(b, a)
FEq(a, b) == ~IsNaN(a) /\ ~IsNaN(b) /\ a.n * b.d = b.n * a.d

\* Python's max(a, b): the first argument is kept unless a later one compares greater
PyMax2(a, b) == IF FGt(b, a) THEN b ELSE a
PyMax3(a, b, c) == PyMax2(PyMax2(a, b), c)

\* math.floor of a number
Floor(a) == a.n \div a.d

NoneVal == [none |-> TRUE]
NoFrame == [fn |-> "none"]

----------------------------------------------------------------------------
(* calculate_exit_strategy *)

\* prices are integers 0..MaxPrice, the purchase price is BuyPrice
MaxPrice == 30
BuyPrice == 20

Pct(p) == Rat(p, 100)

\* MA75 of the last bar: undefined (fewer than 75 bars), absent (0) or a price
Ma75Values == {NaN, Num(0), Num(BuyPrice - 1), Num(MaxPrice - 2)}

ExitArgs ==
    [fn : {"calculate_exit_strategy"},
     price_buy  : {Num(0), Num(BuyPrice)},
     price_curr : {Num(p) : p \in 0..MaxPrice},
     price_high : {Num(p) : p \in BuyPrice..MaxPrice},
     ma75       : Ma75Values,
     stop_pct   : {Pct(5), Pct(10)},
     trail_pct  : {Pct(10), Pct(25)},
     mode       : {"short", "long"}]

ProfitPct(a) ==
    FMul(FDiv(FSub(a.price_curr, a.price_buy), a.price_buy), Num(100))

\* the labels are Japanese display strings in the code; they are written here
\* in English, one distinct string per label and suffix
ZoneLabel(a) ==
    LET profit_pct == ProfitPct(a) IN
    IF a.mode = "long"
    THEN IF FLt(profit_pct, Num(10)) THEN "long:growing"
         ELSE IF FLe(Num(10), profit_pct) /\ FLt(profit_pct, Num(30))
              THEN "long:stable(trail15%)"
              ELSE "long:harvest(MA75/20%)"
    ELSE "short-term trade"

\* variant: the zone boundaries taken as exclusive lower bounds
UsedTrailPctExclusive(a) ==
    LET profit_pct == ProfitPct(a) IN
    IF a.mode = "long"
    THEN IF FLe(profit_pct, Num(10)) THEN a.trail_pct
         ELSE IF FLt(Num(10), profit_pct) /\ FLe(profit_pct, Num(30))
              THEN Pct(15)
              ELSE Pct(20)
    ELSE a.trail_pct

UsedTrailPct(a) ==
    LET profit_pct == ProfitPct(a) IN
    IF a.mode = "long"
    THEN IF FLt(profit_pct, Num(10)) THEN a.trail_pct
         ELSE IF FLe(Num(10), profit_pct) /\ FLt(profit_pct, Num(30))
              THEN Pct(15)
              ELSE Pct(20)
    ELSE a.trail_pct

\* variant: breakeven defense already at a profit of exactly 5%
BaseLineStrict(a) ==
    IF FLt(ProfitPct(a), Num(5))
    THEN FMul(a.price_buy, FSub(Num(1), a.stop_pct))
    ELSE a.price_buy

BaseLine(a) ==
    IF FLe(ProfitPct(a), Num(5))
    THEN FMul(a.price_buy, FSub(Num(1), a.stop_pct))
    ELSE a.price_buy

\* variant: the suffix is appended in every mode
BaseSuffixAllModes(a) ==
    IF FLe(ProfitPct(a), Num(5)) THEN "/stop-loss" ELSE "/breakeven"

BaseSuffix(a) ==
    IF FLe(ProfitPct(a), Num(5))
    THEN IF a.mode = "short" THEN "/stop-loss" ELSE ""
    ELSE IF a.mode = "short" THEN "/breakeven" ELSE ""

TrailLine(a) == FMul(a.price_high, FSub(Num(1), UsedTrailPct(a)))

MaLine(a) ==
    IF a.mode = "long" /\ FGe(ProfitPct(a), Num(30)) THEN a.ma75 ELSE Num(0)

SuggestedPrice(a) == PyMax3(BaseLine(a), TrailLine(a), MaLine(a))

\* variant: no emergency when the floor equals the market
IsEmergencyStrict(a) == FGt(SuggestedPrice(a), a.price_curr)

IsEmergency(a) == FGe(SuggestedPrice(a), a.price_curr)

\* variant: the emergency order is placed at the market
FinalOrderPriceAtMarket(a) ==
    IF IsEmergency(a) THEN a.price_curr ELSE SuggestedPrice(a)

FinalOrderPrice(a) ==
    IF IsEmergency(a) THEN FMul(a.price_curr, Rat(985, 1000))
    ELSE SuggestedPrice(a)

ExitLabel(a) ==
    IF IsEmergency(a) THEN "EMERGENCY EXIT"
    ELSE ZoneLabel(a) \o BaseSuffix(a)

ExitResult(a) ==
    [order_price  |-> FinalOrderPrice(a),
     raw_line     |-> SuggestedPrice(a),
     label        |-> ExitLabel(a),
     is_emergency |-> IsEmergency(a),
     profit_pct   |-> ProfitPct(a)]

ExitFrame(a) ==
    [fn             |-> "calculate_exit_strategy",
     used_trail_pct |-> UsedTrailPct(a),
     base_line      |-> BaseLine(a),
     trail_line     |-> TrailLine(a),
     ma_line        |-> MaLine(a)]

InitExit ==
    /\ pc = "ready"
    /\ df = NoneVal
    /\ args \in ExitArgs
    /\ frame = NoFrame
    /\ out = NoneVal

\* price_buy = 0 divides by zero in the first statement
CalculateExitStrategyRaises ==
    /\ pc = "ready"
    /\ args.fn = "calculate_exit_strategy"
    /\ args.price_buy.n = 0
    /\ pc' = "raised"
    /\ out' = [raised |-> "ZeroDivisionError"]
    /\ UNCHANGED <<df, args, frame>>

CalculateExitStrategy ==
    /\ pc = "ready"
    /\ args.fn = "calculate_exit_strategy"
    /\ args.price_buy.n # 0
    /\ pc' = "returned"
    /\ frame' = ExitFrame(args)
    /\ out' = ExitResult(args)
    /\ UNCHANGED <<df, args>>

NextExit == CalculateExitStrategy \/ CalculateExitStrategyRaises

SpecExit == InitExit /\ [][NextExit]_vars

----------------------------------------------------------------------------
(* Properties of calculate_exit_strategy *)

ExitReturned == pc = "returned" /\ args.fn = "calculate_exit_strategy"

\* the integer arguments, and the profit thresholds without division:
\* profitPct >= t  <=>  (curr - buy) * 100 >= t * buy   (buy > 0)
ArgBuy  == args.price_buy.n
ArgCurr == args.price_curr.n
ArgHigh == args.price_high.n
ProfitGe(t) == (ArgCurr - ArgBuy) * 100 >= t * ArgBuy
ProfitGt(t) == (ArgCurr - ArgBuy) * 100 >  t * ArgBuy

\* C1: for purchasePrice > 0, raw_line is the largest of baseLine, trailLine
\* and maLine (so >= baseLine and >= trailLine); is_emergency holds exactly
\* when raw_line >= currentPrice; order_price is currentPrice * 0.985 in an
\* emergency and raw_line otherwise.
C1_ExitContract ==
    (ExitReturned /\ ArgBuy > 0) =>
        /\ out.raw_line \in {frame.base_line, frame.trail_line, frame.ma_line}
        /\ FGe(out.raw_line, frame.base_line)
        /\ FGe(out.raw_line, frame.trail_line)
        /\ ~IsNaN(frame.ma_line) => FGe(out.raw_line, frame.ma_line)
        /\ out.is_emergency <=>
               out.raw_line.n * args.price_curr.d >= ArgCurr * out.raw_line.d
        /\ out.is_emergency =>
               out.order_price.n * 1000 = ArgCurr * 985 * out.order_price.d
        /\ ~out.is_emergency => out.order_price = out.raw_line

\* an emergency in which the trailing line is the winning floor and the
\* market is above zero
C1_Witness ==
    /\ ExitReturned /\ ArgBuy > 0 /\ ArgCurr > 0
    /\ out.is_emergency
    /\ FGt(frame.trail_line, frame.base_line)
    /\ out.raw_line = frame.trail_line
    /\ FLt(out.order_price, args.price_curr)

\* the zone table, as a percentage
ZoneTrailPct ==
    IF args.mode = "short" THEN args.trail_pct
    ELSE IF ~ProfitGe(10) THEN args.trail_pct
    ELSE IF ~ProfitGe(30) THEN Rat(15, 100)
    ELSE Rat(20, 100)

Ma75Eligible == args.mode = "long" /\ ProfitGe(30)

C4_BaseLine ==
    (ExitReturned /\ ArgBuy > 0) =>
        /\ ~ProfitGt(5) =>
              frame.base_line.n * args.stop_pct.d
                = ArgBuy * (args.stop_pct.d - args.stop_pct.n) * frame.base_line.d
        /\ ProfitGt(5) =>
              /\ frame.base_line = args.price_buy
              /\ out.raw_line.n >= ArgBuy * out.raw_line.d
        /\ out.raw_line.n * args.stop_pct.d
             >= ArgBuy * (args.stop_pct.d - args.stop_pct.n) * out.raw_line.d

\* profit exactly 5% in long mode: the stop-loss line is the winning floor
C4_Witness ==
    /\ ExitReturned /\ args.mode = "long"
    /\ (ArgCurr - ArgBuy) * 100 = 5 * ArgBuy
    /\ FLt(frame.base_line, args.price_buy)
    /\ out.raw_line = frame.base_line
    /\ ~out.is_emergency

----------------------------------------------------------------------------
(* calculate_position_size *)

\* capital is a multiple of CapitalStep up to MaxCapitalSteps steps, prices are
\* integers -1..MaxSizePrice
CapitalStep == 1000
MaxCapitalSteps == 8
MaxSizePrice == 6

LotSize == 100

PyMin2(a, b) == IF FLt(b, a) THEN b ELSE a

SizeArgs ==
    [fn : {"calculate_position_size"},
     total_capital : {Num(k * CapitalStep) : k \in 0..MaxCapitalSteps},
     risk_pct      : {Num(1), Num(2), Num(50), Num(100)},
     price_curr    : {Num(p) : p \in (-1)..MaxSizePrice},
     stop_pct      : {Pct(-5), Pct(0), Pct(5), Pct(10), Pct(50)}]

RiskLimit(a) == FMul(a.total_capital, FDiv(a.risk_pct, Num(100)))

Dist(a) == FMul(a.price_curr, a.stop_pct)

RiskBasedShares(a) ==
    IF FLe(Dist(a), Num(0)) THEN Num(0) ELSE FDiv(RiskLimit(a), Dist(a))

BudgetBasedShares(a) == FDiv(a.total_capital, a.price_curr)

\* variant: the larger of the two share counts
FinalRawSharesMax(a) == PyMax2(RiskBasedShares(a), BudgetBasedShares(a))

FinalRawShares(a) == PyMin2(RiskBasedShares(a), BudgetBasedShares(a))

RecShares(a) == Floor(FDiv(FinalRawShares(a), Num(LotSize))) * LotSize

SizeFrame(a) ==
    [fn                  |-> "calculate_position_size",
     risk_limit          |-> RiskLimit(a),
     dist                |-> Dist(a),
     risk_based_shares   |-> RiskBasedShares(a),
     budget_based_shares |-> BudgetBasedShares(a)]

InitSize ==
    /\ pc = "ready"
    /\ df = NoneVal
    /\ args \in SizeArgs
    /\ frame = NoFrame
    /\ out = NoneVal

\* the early return for price_curr <= 0
CalculatePositionSizeNoPrice ==
    /\ pc = "ready"
    /\ args.fn = "calculate_position_size"
    /\ FLe(args.price_curr, Num(0))
    /\ pc' = "returned"
    /\ out' = 0
    /\ UNCHANGED <<df, args, frame>>

CalculatePositionSize ==
    /\ pc = "ready"
    /\ args.fn = "calculate_position_size"
    /\ ~FLe(args.price_curr, Num(0))
    /\ pc' = "returned"
    /\ frame' = SizeFrame(args)
    /\ out' = RecShares(args)
    /\ UNCHANGED <<df, args>>

NextSize == CalculatePositionSize \/ CalculatePositionSizeNoPrice

SpecSize == InitSize /\ [][NextSize]_vars

(* Properties of calculate_position_size *)

SizeReturned == pc = "returned" /\ args.fn = "calculate_position_size"

ArgCapital == args.total_capital.n
ArgRisk    == args.risk_pct.n
ArgPrice   == args.price_curr.n
ArgStopN   == args.stop_pct.n
ArgStopD   == args.stop_pct.d

\* m shares cost at most the capital:  m * price <= capital
WithinBudget(m) == m * ArgPrice <= ArgCapital
\* m shares risk at most the risk budget:
\* m * price * stop <= capital * risk / 100
WithinRisk(m) == m * ArgPrice * ArgStopN * 100 <= ArgCapital * ArgRisk * ArgStopD

SizeValid ==
    /\ ArgCapital > 0 /\ ArgRisk > 0 /\ ArgRisk <= 100
    /\ ArgPrice > 0 /\ ArgStopN > 0 /\ ArgStopN < ArgStopD

\* C6: the result is floor(min(riskBudget/perShareRisk, totalCapital/price)/100)*100,
\* with the risk-based count 0 when perShareRisk <= 0, and 0 when price <= 0;
\* for valid inputs it is a non-negative multiple of 100 whose cost does not
\* exceed totalCapital and whose risk does not exceed riskBudget (and one lot
\* more would exceed one of them).
C6_PositionSize ==
    SizeReturned =>
        /\ ArgPrice <= 0 => out = 0
        /\ (ArgPrice > 0 /\ ArgStopN <= 0) => out = 0
        /\ SizeValid =>
              /\ out >= 0
              /\ out % LotSize = 0
              /\ WithinBudget(out)
              /\ WithinRisk(out)
              /\ ~(WithinBudget(out + LotSize) /\ WithinRisk(out + LotSize))

\* valid inputs where the risk budget, not the capital, limits a non-zero size
C6_Witness ==
    /\ SizeReturned /\ SizeValid
    /\ out >= LotSize
    /\ WithinBudget(out + LotSize)
    /\ ~WithinRisk(out + LotSize)
    /\ FLt(frame.risk_based_shares, frame.budget_based_shares)

----------------------------------------------------------------------------
(* DataFrames *)

\* A DataFrame is [index |-> sequence of bar timestamps (epoch seconds),
\*                 data  |-> function from column names to sequences of floats],
\* every column as long as the index.  The columns Open and Low are never read
\* by the code and are left out.
NBars(d) == Len(d.index)
Columns(d) == DOMAIN d.data
IsNoneOrEmpty(d) == IF d = NoneVal THEN TRUE ELSE NBars(d) = 0

\* df[c].iloc[-1] and df[c].iloc[-2]
Last(d, c) == d.data[c][NBars(d)]
Prev(d, c) == d.data[c][NBars(d) - 1]

\* df[name] = values
SetColumn(d, name, values) ==
    [d EXCEPT !.data = [c \in (DOMAIN d.data) \cup {name} |->
                            IF c = name THEN values ELSE d.data[c]]]

\* how a call was given its DataFrame
Given(d) == IF d = NoneVal THEN "None" ELSE IF NBars(d) = 0 THEN "empty" ELSE "bars"

----------------------------------------------------------------------------
(* analyze_entry_strategy *)

RsiOversold(d) == FLt(Last(d, "RSI"), Num(35))

\* variant: the previous bar must be strictly below
GoldenCrossStrict(d) ==
    /\ NBars(d) >= 2
    /\ FGt(Last(d, "MA5"), Last(d, "MA25"))
    /\ FLt(Prev(d, "MA5"), Prev(d, "MA25"))

GoldenCross(d) ==
    /\ NBars(d) >= 2
    /\ FGt(Last(d, "MA5"), Last(d, "MA25"))
    /\ FLe(Prev(d, "MA5"), Prev(d, "MA25"))

VolumeSurge(d) ==
    /\ FGt(Last(d, "VolMA5"), Num(0))
    /\ FGt(Last(d, "Volume"), FMul(Last(d, "VolMA5"), Rat(15, 10)))

EntryScore(d) ==
    (IF RsiOversold(d) THEN 50 ELSE 0)
      + (IF GoldenCross(d) THEN 50 ELSE 0)
      + (IF VolumeSurge(d) THEN 20 ELSE 0)

EntryReasons(d) ==
    (IF RsiOversold(d) THEN <<"RSI oversold">> ELSE <<>>)
      \o (IF GoldenCross(d) THEN <<"golden cross">> ELSE <<>>)
      \o (IF VolumeSurge(d) THEN <<"volume surge">> ELSE <<>>)

EntryColumns == {"RSI", "MA5", "MA25", "Volume", "VolMA5"}

\* analyze_entry_strategy(d), pc going from `from` to "returned"
AnalyzeEntryStrategyOn(d, from) ==
    /\ pc = from
    /\ \/ /\ IsNoneOrEmpty(d)
          /\ pc' = "returned"
          /\ out' = [score |-> 0, reasons |-> <<>>]
       \/ /\ ~IsNoneOrEmpty(d)
          /\ EntryColumns \subseteq Columns(d)
          /\ pc' = "returned"
          /\ out' = [score |-> EntryScore(d), reasons |-> EntryReasons(d)]
    /\ frame' = [fn |-> "analyze_entry_strategy", given |-> Given(d)]
    /\ UNCHANGED <<df, args>>

\* df['RSI'] and the other lookups raise KeyError on a frame without indicators
AnalyzeEntryStrategyRaisesOn(d, from) ==
    /\ pc = from
    /\ ~IsNoneOrEmpty(d)
    /\ ~(EntryColumns \subseteq Columns(d))
    /\ pc' = "raised"
    /\ out' = [raised |-> "KeyError"]
    /\ frame' = [fn |-> "analyze_entry_strategy", given |-> Given(d)]
    /\ UNCHANGED <<df, args>>

\* Enriched frames of 0 to 2 bars given directly.  The previous bar would fire
\* the RSI and the volume trigger if it were the one read.
EntryLastRows ==
    [RSI    : {NaN, Num(30), Num(35), Num(40)},
     MA5    : {NaN, Num(1), Num(2)},
     MA25   : {NaN, Num(1), Num(2)},
     Volume : {Num(3), Num(4)},
     VolMA5 : {NaN, Num(0), Num(2)}]

EntryPrevRows ==
    [RSI    : {Num(30)},
     MA5    : {NaN, Num(1), Num(2)},
     MA25   : {NaN, Num(1), Num(2)},
     Volume : {Num(4)},
     VolMA5 : {Num(2)}]

SecondsPerDay == 86400

FrameOfRows(rows) ==
    [index |-> [i \in 1..Len(rows) |-> i * SecondsPerDay],
     data  |-> [c \in EntryColumns |-> [i \in 1..Len(rows) |-> rows[i][c]]]]

EntryFrames ==
    {NoneVal, FrameOfRows(<<>>)}
      \cup {FrameOfRows(<<r>>) : r \in EntryLastRows}
      \cup {FrameOfRows(<<q, r>>) : q \in EntryPrevRows, r \in EntryLastRows}

InitEntry ==
    /\ pc = "ready"
    /\ df \in EntryFrames
    /\ args = [fn |-> "analyze_entry_strategy"]
    /\ frame = NoFrame
    /\ out = NoneVal

AnalyzeEntryStrategyDirect == AnalyzeEntryStrategyOn(df, "ready")

NextEntry == AnalyzeEntryStrategyDirect

SpecEntry == InitEntry /\ [][NextEntry]_vars

(* Properties of analyze_entry_strategy *)

EntryReturned ==
    pc = "returned" /\ frame.fn = "analyze_entry_strategy" /\ frame.given = "bars"

\* the three triggers, read from the last two bars of the frame
TrigRsi ==
    LET r == Last(df, "RSI") IN ~IsNaN(r) /\ r.n < 35 * r.d
TrigCross ==
    /\ NBars(df) >= 2
    /\ LET a == Last(df, "MA5")  b == Last(df, "MA25")
           c == Prev(df, "MA5")  e == Prev(df, "MA25")
       IN  /\ a # NaN /\ b # NaN /\ c # NaN /\ e # NaN
           /\ a.n * b.d > b.n * a.d
           /\ c.n * e.d <= e.n * c.d
TrigVolume ==
    LET v == Last(df, "Volume")  m == Last(df, "VolMA5")
    IN  /\ v # NaN /\ m # NaN
        /\ m.n > 0
        /\ 2 * v.n * m.d > 3 * m.n * v.d

\* C5: the score is the sum of +50 (rsi14 < 35), +50 (ma5 > ma25 now and
\* ma5 <= ma25 on the previous bar) and +20 (volMA5 > 0 and volume >
\* 1.5 * volMA5), the triggers being independent; it lies in
\* {0,20,50,70,100,120}; the reasons are those of the fired triggers in the
\* order RSI oversold, golden cross, volume surge.
C5_EntryScore ==
    EntryReturned =>
        /\ out.score = (IF TrigRsi THEN 50 ELSE 0) + (IF TrigCross THEN 50 ELSE 0)
                          + (IF TrigVolume THEN 20 ELSE 0)
        /\ out.score \in {0, 20, 50, 70, 100, 120}
        /\ out.reasons = (IF TrigRsi THEN <<"RSI oversold">> ELSE <<>>)
                            \o (IF TrigCross THEN <<"golden cross">> ELSE <<>>)
                            \o (IF TrigVolume THEN <<"volume surge">> ELSE <<>>)

\* all three triggers fire at once, the previous bar having ma5 = ma25
C5_Witness ==
    /\ EntryReturned
    /\ out.score = 120
    /\ Len(out.reasons) = 3
    /\ Prev(df, "MA5") = Prev(df, "MA25")

----------------------------------------------------------------------------
(* add_technical_indicators *)

\* Series.rolling(window=w).mean(): undefined until w values are in the
\* window, and where the window holds an undefined value
RECURSIVE WindowSum(_, _, _)
WindowSum(s, from, to) ==
    IF from > to THEN Num(0) ELSE FAdd(s[from], WindowSum(s, from + 1, to))

RollingMean(s, w) ==
    [i \in 1..Len(s) |->
        IF i < w THEN NaN ELSE FDiv(WindowSum(s, i - w + 1, i), Num(w))]

\* Series.diff(): undefined at the first bar
Diff(s) == [i \in 1..Len(s) |-> IF i = 1 THEN NaN ELSE FSub(s[i], s[i - 1])]

\* delta.where(delta > 0, 0) and delta.where(delta < 0, 0): a value for which
\* the condition is false, an undefined one included, is replaced by 0
WherePositive(s) == [i \in 1..Len(s) |-> IF FGt(s[i], Num(0)) THEN s[i] ELSE Num(0)]
WhereNegative(s) == [i \in 1..Len(s) |-> IF FLt(s[i], Num(0)) THEN s[i] ELSE Num(0)]
Negated(s) == [i \in 1..Len(s) |-> FNeg(s[i])]

RsiWindow == 14

\* closes are counted in units of 1e-8, so that the 1e-10 of the code is 1/100
Eps == Rat(1, 100)

Gain(close) == RollingMean(WherePositive(Diff(close)), RsiWindow)

\* variant: the sign of the falling differences is not flipped
LossUnnegated(close) == RollingMean(WhereNegative(Diff(close)), RsiWindow)

Loss(close) == RollingMean(Negated(WhereNegative(Diff(close))), RsiWindow)

Rsi(close) ==
    LET gain == Gain(close)
        loss == Loss(close)
    IN  [i \in 1..Len(close) |->
            FSub(Num(100),
                 FDiv(Num(100),
                      FAdd(Num(1), FDiv(gain[i], FAdd(loss[i], Eps)))))]

IndicatorColumns == {"MA5", "MA25", "MA75", "RSI", "VolMA5"}

\* variant: the bars without a defined RSI are dropped from the frame
WithIndicatorsDropUndefined(d) ==
    LET rsi  == Rsi(d.data["Close"])
        keep == {i \in 1..NBars(d) : ~IsNaN(rsi[i])}
        n    == Cardinality(keep)
        first == NBars(d) - n
        cut(col) == [i \in 1..n |-> col[first + i]]
        e == SetColumn(SetColumn(SetColumn(SetColumn(SetColumn(d,
                "MA5", RollingMean(d.data["Close"], 5)),
                "MA25", RollingMean(d.data["Close"], 25)),
                "MA75", RollingMean(d.data["Close"], 75)),
                "RSI", rsi),
                "VolMA5", RollingMean(d.data["Volume"], 5))
    IN  [index |-> cut(e.index), data |-> [c \in DOMAIN e.data |-> cut(e.data[c])]]

\* the frame after the five column assignments
WithIndicators(d) ==
    SetColumn(SetColumn(SetColumn(SetColumn(SetColumn(d,
        "MA5", RollingMean(d.data["Close"], 5)),
        "MA25", RollingMean(d.data["Close"], 25)),
        "MA75", RollingMean(d.data["Close"], 75)),
        "RSI", Rsi(d.data["Close"])),
        "VolMA5", RollingMean(d.data["Volume"], 5))

\* the returned reference: the function returns the object it was given
SameFrame == [ref |-> "df"]

\* what a caller holds after `x = add_technical_indicators(df)`
Deref(r) == IF r = SameFrame THEN df ELSE NoneVal

AddTechnicalIndicators ==
    /\ pc = "ready"
    /\ args.fn = "pipeline"
    /\ IF IsNoneOrEmpty(df)
       THEN /\ out' = NoneVal
            /\ df' = df
            /\ frame' = [fn |-> "add_technical_indicators", given |-> Given(df)]
       ELSE /\ df' = WithIndicators(df)
            /\ out' = SameFrame
            /\ frame' = [fn |-> "add_technical_indicators", given |-> Given(df),
                         gain |-> Gain(df.data["Close"]),
                         loss |-> Loss(df.data["Close"])]
    /\ pc' = "enriched"
    /\ UNCHANGED args

----------------------------------------------------------------------------
(* get_latest_metrics *)

\* purchase_timestamp_str is None, a string that is no number ("" is falsy,
\* "abc" fails in float(), "nan" fails in fromtimestamp()), or the decimal
\* text of epoch seconds [secs |-> n]
NoTimestamp == NoneVal
EmptyText == [text |-> ""]
BadTexts == {[text |-> "abc"], [text |-> "nan"]}

IsTruthy(ts) == ts # NoneVal /\ ts # EmptyText
Parses(ts) == "secs" \in DOMAIN ts

\* datetime.fromtimestamp(float(ts)).date() in the local time zone, and
\* d.date() of a bar's timestamp, as day numbers
BuyDate(ts, tz) == (ts.secs + tz) \div SecondsPerDay
BarDate(t) == t \div SecondsPerDay

\* the positions of the bars of target_df
FilteredRows(d, ts, tz) == {i \in 1..NBars(d) : BarDate(d.index[i]) >= BuyDate(ts, tz)}

\* variant: the whole frame when no bar is on or after the purchase date
TargetRowsFullFallback(d, ts, tz) ==
    IF IsTruthy(ts) /\ Parses(ts)
    THEN IF FilteredRows(d, ts, tz) # {} THEN FilteredRows(d, ts, tz)
         ELSE 1..NBars(d)
    ELSE 1..NBars(d)

TargetRows(d, ts, tz) ==
    IF IsTruthy(ts) /\ Parses(ts)
    THEN IF FilteredRows(d, ts, tz) # {} THEN FilteredRows(d, ts, tz)
         ELSE {NBars(d)}
    ELSE 1..NBars(d)

\* Series.max(): the largest defined value, undefined when there is none
PdMax(values) ==
    LET defined == values \ {NaN}
    IN  IF defined = {} THEN NaN
        ELSE CHOOSE v \in defined : \A w \in defined : FGe(v, w)

PeriodHigh(d, ts, tz) == PdMax({d.data["High"][i] : i \in TargetRows(d, ts, tz)})

CurrentPrice(d) == Last(d, "Close")

\* variant: the purchase price is not used as the floor
RecentHighUnfloored(d, a) ==
    LET period_high == PeriodHigh(d, a.purchase_timestamp_str, a.tz)
    IN  IF IsNaN(period_high) THEN CurrentPrice(d) ELSE period_high

RecentHigh(d, a) ==
    LET period_high == PeriodHigh(d, a.purchase_timestamp_str, a.tz)
    IN  IF IsNaN(period_high)
        THEN PyMax2(a.purchase_price, CurrentPrice(d))
        ELSE PyMax2(a.purchase_price, period_high)

\* variant: undefined fields for a missing series
NoMetricsUndefined ==
    [current_price |-> NaN, recent_high |-> NaN, rsi |-> NaN, ma75 |-> NaN]

NoMetrics ==
    [current_price |-> Num(0), recent_high |-> Num(0), rsi |-> Num(0), ma75 |-> Num(0)]

Metrics(d, a) ==
    [current_price |-> CurrentPrice(d),
     recent_high   |-> RecentHigh(d, a),
     rsi           |-> IF "RSI" \in Columns(d) THEN Last(d, "RSI") ELSE Num(0),
     ma75          |-> IF "MA75" \in Columns(d) THEN Last(d, "MA75") ELSE Num(0)]

\* get_latest_metrics(d, purchase_price, purchase_timestamp_str), pc going from
\* `from` to "returned"
GetLatestMetricsOn(d, from) ==
    /\ pc = from
    /\ IF IsNoneOrEmpty(d)
       THEN /\ out' = NoMetrics
            /\ frame' = [fn |-> "get_latest_metrics", given |-> Given(d)]
       ELSE /\ out' = Metrics(d, args)
            /\ frame' = [fn |-> "get_latest_metrics", given |-> Given(d),
                         target |-> TargetRows(d, args.purchase_timestamp_str, args.tz),
                         period_high |-> PeriodHigh(d, args.purchase_timestamp_str, args.tz)]
    /\ pc' = "returned"
    /\ UNCHANGED <<df, args>>

\* the bars of the frames given directly start on the day after FirstDay
FirstDay == 10
MaxMetricBars == 3

\* a bar without a close has no High either
MetricRows ==
    [High  : {NaN, Num(8), Num(11), Num(14)},
     Close : {Num(9), Num(12)}]
      \cup {[High |-> NaN, Close |-> NaN]}

\* frames of n bars on consecutive days, with or without indicator columns
MetricFrame(rows, enriched) ==
    LET n == Len(rows)
        base == [c \in {"High", "Close"} |-> [i \in 1..n |-> rows[i][c]]]
        ind  == [c \in {"RSI", "MA75"} |->
                    [i \in 1..n |-> IF c = "RSI" THEN Num(50)
                                    ELSE IF i = 1 THEN NaN ELSE Num(11)]]
    IN  [index |-> [i \in 1..n |-> (FirstDay + i) * SecondsPerDay],
         data  |-> IF enriched
                   THEN [c \in {"High", "Close", "RSI", "MA75"} |->
                            IF c \in {"High", "Close"} THEN base[c] ELSE ind[c]]
                   ELSE base]

MetricFrames ==
    {NoneVal}
      \cup {MetricFrame(rows, e) :
              rows \in UNION {[1..n -> MetricRows] : n \in 0..MaxMetricBars},
              e \in BOOLEAN}

\* purchase moments: midnight and 15:00 of the days around the bars
MetricTimestamps ==
    {NoTimestamp, EmptyText} \cup BadTexts
      \cup {[secs |-> day * SecondsPerDay + tod] :
              day \in FirstDay..(FirstDay + MaxMetricBars + 1), tod \in {0, 54000}}

\* the local time zone of the process: UTC or UTC+9
TimeZones == {0, 32400}

MetricArgs ==
    [fn : {"get_latest_metrics"},
     purchase_price : {Num(10)},
     purchase_timestamp_str : MetricTimestamps,
     tz : TimeZones]

InitMetrics ==
    /\ pc = "ready"
    /\ df \in MetricFrames
    /\ args \in MetricArgs
    /\ frame = NoFrame
    /\ out = NoneVal

GetLatestMetricsDirect == GetLatestMetricsOn(df, "ready")

NextMetrics == GetLatestMetricsDirect

SpecMetrics == InitMetrics /\ [][NextMetrics]_vars

(* Properties of get_latest_metrics *)

MetricsReturned ==
    pc = "returned" /\ frame.fn = "get_latest_metrics" /\ frame.given = "bars"

\* the frame the call was given: the caller's frame (these calls do not change it)
ArgTs == args.purchase_timestamp_str
TsParses == ArgTs \notin ({NoTimestamp, EmptyText} \cup BadTexts)
PurchaseDay == (ArgTs.secs + args.tz) \div 86400
DayOfBar(i) == df.index[i] \div 86400
Qualifying ==
    IF TsParses THEN {i \in 1..NBars(df) : DayOfBar(i) >= PurchaseDay} ELSE {}
HighOf(i) == df.data["High"][i]

\* C2: for a non-empty series and purchasePrice > 0 the returned recentHigh is
\* >= purchasePrice, whatever the timestamp (valid, missing or unparseable) and
\* also when no bar is on or after the purchase date.
C2_RecentHighFloor ==
    (MetricsReturned /\ args.purchase_price.n > 0) =>
        /\ ~IsNaN(out.recent_high)
        /\ out.recent_high.n * args.purchase_price.d
              >= args.purchase_price.n * out.recent_high.d

\* a valid purchase date after the last bar, the last bar's High below the
\* purchase price: the floor is what is returned
C2_Witness ==
    /\ MetricsReturned /\ TsParses
    /\ Qualifying = {}
    /\ FLt(HighOf(NBars(df)), args.purchase_price)
    /\ out.recent_high = args.purchase_price

\* the subset the claim describes, and the high it gives
ClaimedSubset ==
    IF TsParses
    THEN IF Qualifying # {} THEN Qualifying ELSE {NBars(df)}
    ELSE 1..NBars(df)

ClaimedHighs == {HighOf(i) : i \in ClaimedSubset} \ {NaN}

SubsetAndHigh ==
    /\ frame.target = ClaimedSubset
    /\ ClaimedHighs = {} =>
          out.recent_high = PyMax2(args.purchase_price, Last(df, "Close"))
    /\ ClaimedHighs # {} =>
          /\ out.recent_high \in ClaimedHighs \cup {args.purchase_price}
          /\ FGe(out.recent_high, args.purchase_price)
          /\ \A h \in ClaimedHighs : FGe(out.recent_high, h)

\* recentHigh comes from the purchase price, the current close or the High of a
\* bar on or after the purchase date
NoPrePurchaseHigh ==
    TsParses =>
        out.recent_high \in {args.purchase_price, Last(df, "Close")}
                               \cup {HighOf(i) : i \in Qualifying}

----------------------------------------------------------------------------
(* The data flow: raw series -> add_technical_indicators -> get_latest_metrics
   or analyze_entry_strategy.  The later two are also called on the raw
   series. *)

\* raw series of up to MaxBars daily bars: the close starts at BasePrice, rises
\* by `up` a bar for `turn` bars and then falls by `down` a bar, with `zig`
\* added on every second bar; the High is one above the close; the volume is
\* 100 with the last bar at 100 * volLast
MaxBars == 16
BasePrice == 40

Min(a, b) == IF a < b THEN a ELSE b
Max(a, b) == IF a > b THEN a ELSE b

RawSeries(n, turn, up, down, zig, volLast) ==
    LET close == [i \in 1..n |->
                    Num(BasePrice + up * Min(i - 1, turn) - down * Max(0, i - 1 - turn)
                          + zig * (i % 2))]
    IN  [index |-> [i \in 1..n |-> (FirstDay + i) * SecondsPerDay],
         data  |-> [c \in {"High", "Close", "Volume"} |->
                      [i \in 1..n |->
                         CASE c = "Close"  -> close[i]
                           [] c = "High"   -> FAdd(close[i], Num(1))
                           [] c = "Volume" -> Num(IF i = n THEN 100 * volLast ELSE 100)]]]

RawFrames ==
    {NoneVal}
      \cup {RawSeries(n, turn, up, down, zig, v) :
              n \in 0..MaxBars, turn \in 0..MaxBars, up \in 0..2, down \in 0..2,
              zig \in 0..1, v \in 1..2}

PipelineArgs ==
    [fn : {"pipeline"},
     purchase_price : {Num(BasePrice)},
     purchase_timestamp_str : {NoTimestamp, [secs |-> (FirstDay + 3) * SecondsPerDay]},
     tz : {0}]

Init ==
    /\ pc = "ready"
    /\ df \in RawFrames
    /\ args \in PipelineArgs
    /\ frame = NoFrame
    /\ out = NoneVal

GetLatestMetricsRaw ==
    args.fn = "pipeline" /\ GetLatestMetricsOn(df, "ready")
GetLatestMetricsEnriched ==
    args.fn = "pipeline" /\ GetLatestMetricsOn(Deref(out), "enriched")
AnalyzeEntryStrategyRaw ==
    args.fn = "pipeline" /\ AnalyzeEntryStrategyOn(df, "ready")
AnalyzeEntryStrategyRawRaises ==
    args.fn = "pipeline" /\ AnalyzeEntryStrategyRaisesOn(df, "ready")
AnalyzeEntryStrategyEnriched ==
    args.fn = "pipeline" /\ AnalyzeEntryStrategyOn(Deref(out), "enriched")

Next ==
    \/ AddTechnicalIndicators
    \/ GetLatestMetricsRaw
    \/ GetLatestMetricsEnriched
    \/ AnalyzeEntryStrategyRaw
    \/ AnalyzeEntryStrategyRawRaises
    \/ AnalyzeEntryStrategyEnriched

Spec == Init /\ [][Next]_vars

(* Properties of the data flow *)

GivenNothing == frame.fn # "none" /\ frame.given \in {"None", "empty"}

\* C7: given a null or empty series no operation raises:
\* add_technical_indicators returns None, get_latest_metrics returns a tuple of
\* four zeros and analyze_entry_strategy returns score 0 with no reasons.
C7_NoDataSentinels ==
    GivenNothing =>
        /\ pc # "raised"
        /\ frame.fn = "add_technical_indicators" => out = NoneVal
        /\ frame.fn = "get_latest_metrics" =>
              /\ DOMAIN out = {"current_price", "recent_high", "rsi", "ma75"}
              /\ \A f \in DOMAIN out : out[f] = [n |-> 0, d |-> 1]
        /\ frame.fn = "analyze_entry_strategy" =>
              out = [score |-> 0, reasons |-> <<>>]

\* an empty frame was enriched to None, and get_latest_metrics was then given
\* that None
C7_Witness ==
    /\ pc = "returned"
    /\ df # NoneVal
    /\ NBars(df) = 0
    /\ frame.fn = "get_latest_metrics"
    /\ frame.given = "None"
    /\ out.recent_high = Num(0)

HasRsi == df # NoneVal /\ "RSI" \in Columns(df)

\* C9: every defined rsi14 of the enriched series lies in [0, 100], also where
\* the trailing loss mean or the trailing gain mean is 0.
C9_RsiRange ==
    HasRsi =>
        \A i \in 1..NBars(df) :
            LET r == df.data["RSI"][i]
            IN  ~IsNaN(r) => (r.n >= 0 /\ r.n <= 100 * r.d)

\* a bar with a defined rsi14 whose trailing losses are all 0 while the gains
\* are not
C9_Witness ==
    /\ pc = "enriched" /\ HasRsi
    /\ \E i \in 1..NBars(df) :
          /\ ~IsNaN(df.data["RSI"][i])
          /\ frame.loss[i] = Num(0)
          /\ FGt(frame.gain[i], Num(0))
          /\ FGt(df.data["RSI"][i], Num(99))

IndicatorStep == pc = "ready" /\ pc' = "enriched"

----------------------------------------------------------------------------
(* The RSI window *)

\* the close of bar i (bars are numbered from 1 here, from 0 in the claim)
CloseAt(i) == df.data["Close"][i].n

\* the sums of max(diff, 0) and max(-diff, 0) over the diffs of bars from..to
RECURSIVE SumUp(_, _)
SumUp(from, to) ==
    IF from > to THEN 0
    ELSE Max(CloseAt(from) - CloseAt(from - 1), 0) + SumUp(from + 1, to)

RECURSIVE SumDown(_, _)
SumDown(from, to) ==
    IF from > to THEN 0
    ELSE Max(CloseAt(from - 1) - CloseAt(from), 0) + SumDown(from + 1, to)

\* rsi14 of bar i as the claim describes it: undefined while one of the
\* trailing RsiWindow diffs is the undefined diff of the first bar, and
\* otherwise computed from the means of the trailing RsiWindow diffs
ClaimedRsi(i) ==
    IF i - RsiWindow + 1 < 2 THEN NaN
    ELSE LET gain == Rat(SumUp(i - RsiWindow + 1, i), RsiWindow)
             loss == Rat(SumDown(i - RsiWindow + 1, i), RsiWindow)
         IN  FSub(Num(100),
                  FDiv(Num(100), FAdd(Num(1), FDiv(gain, FAdd(loss, Eps)))))

\* C11: rsi14 at bar i comes from the means of max(diff, 0) and max(-diff, 0)
\* over the trailing 14 diffs; it is undefined until 14 defined diffs exist
\* (the first 14 bars), and the undefined diff of the first bar never enters a
\* mean as a value.
C11_RsiWindow ==
    HasRsi => \A i \in 1..NBars(df) : df.data["RSI"][i] = ClaimedRsi(i)

\* what does hold: from the bar with 14 defined diffs on, the values agree
RsiAgreesAfterWarmup ==
    HasRsi => \A i \in (RsiWindow + 1)..NBars(df) : df.data["RSI"][i] = ClaimedRsi(i)

----------------------------------------------------------------------------
(* The label and the order price of calculate_exit_strategy *)

\* the zone label of long mode by the profit thresholds
LongZoneLabel ==
    IF ~ProfitGe(10) THEN "long:growing"
    ELSE IF ~ProfitGe(30) THEN "long:stable(trail15%)"
    ELSE "long:harvest(MA75/20%)"

\* C12: the label is the emergency-exit label exactly when is_emergency is
\* true; otherwise in short mode it is the short-term-trade label followed by
\* the stop-loss suffix (profitPct <= 5) or the breakeven suffix (profitPct >
\* 5), and in long mode it is the zone label with nothing appended.
C12_Label ==
    (ExitReturned /\ ArgBuy > 0) =>
        /\ out.label = "EMERGENCY EXIT" <=> out.is_emergency
        /\ (~out.is_emergency /\ args.mode = "short") =>
              out.label = (IF ProfitGt(5) THEN "short-term trade/breakeven"
                           ELSE "short-term trade/stop-loss")
        /\ (~out.is_emergency /\ args.mode = "long") =>
              out.label = LongZoneLabel

\* long mode in the stable zone, above 5% profit and no emergency: the zone
\* label alone
C12_Witness ==
    /\ ExitReturned /\ args.mode = "long"
    /\ ProfitGe(10) /\ ~ProfitGe(30)
    /\ ~out.is_emergency
    /\ out.label = "long:stable(trail15%)"

\* C13: for purchasePrice > 0 and currentPrice > 0 the order price is strictly
\* below currentPrice, with and without an emergency and in both modes; the
\* order price equals currentPrice only at currentPrice = 0.
C13_OrderBelowMarket ==
    (ExitReturned /\ ArgBuy > 0) =>
        /\ ArgCurr > 0 => out.order_price.n < ArgCurr * out.order_price.d
        /\ out.order_price.n = ArgCurr * out.order_price.d <=> ArgCurr = 0

\* the harvest zone with MA75 as the winning floor just below the market, no
\* emergency
C13_Witness ==
    /\ ExitReturned /\ args.mode = "long" /\ ArgCurr > 0
    /\ ~out.is_emergency
    /\ frame.ma_line = args.ma75
    /\ out.raw_line = args.ma75
    /\ FGt(out.raw_line, frame.trail_line)
    /\ out.order_price = out.raw_line
    /\ FLt(out.order_price, args.price_curr)

====
